---- MODULE Spec2Model ----
(***************************************************************************)
(* Model of src/Rust/src/windows/util.rs: the Windows platform services of *)
(* the installer/updater (global mutex, hook and process runner, path      *)
(* containment, OS version gate, CPU architecture gate).                   *)
(*                                                                         *)
(* Each component has its own specification over the shared variables:     *)
(*   SpecMutex  create_global_mutex / MutexDropGuard::drop                  *)
(*   SpecRun    run_process_no_console_and_wait / run_hook                  *)
(*   SpecPath   is_sub_path                                                 *)
(*   SpecGate   is_os_version_or_greater / is_cpu_architecture_supported    *)
(***************************************************************************)
EXTENDS Integers, Sequences, FiniteSets, TLC

VARIABLES
    \* ---- global mutex (one application id, several processes) ----
    mutexHandles,   \* OS: open handles to the named mutex object -> owning process
    closeCount,     \* OS: how many times CloseHandle was called on each handle
    guard,          \* per process: handle owned by its live MutexDropGuard, 0 if none
    lastAcquire,    \* the last create_global_mutex call: who, outcome, handle, guards before
    \* ---- process runner and hook runner ----
    caller,         \* "direct": run_process_no_console_and_wait called as is; "hook": by run_hook
    timeout,        \* the timeout argument: [some |-> FALSE] is None
    prog,           \* the child: bytes it writes to stdout and stderr, then its exit code
    child,          \* OS: "none", "running", "exited", "killed"
    written,        \* OS: bytes the child has written so far into each pipe
    rwPc,           \* position in run_process_no_console_and_wait
    rwStatus,       \* the ExitStatus wait returned: [got |-> FALSE] before
    rwResult,       \* the Result<String> returned
    killed,         \* "no": kill not called; "ok" / "err": what cmd.kill() returned
    log,            \* the warn!/info! lines written
    hookPc,         \* position in run_hook
    cleanup,        \* force_stop_package calls: how many, and where run_and_wait was
    \* ---- path containment ----
    pathArg,        \* is_sub_path's `path`, a sequence of characters
    parentArg,      \* is_sub_path's `parent`
    osFailure,      \* the OS call that fails during this is_sub_path call, "none" if none
    subPathResult,  \* "none" before the call, then "Ok(true)", "Ok(false)" or "Err"
    \* ---- OS version gate and CPU architecture gate ----
    host,           \* the host: its reported version, and whether its version queries fail
    version,        \* is_os_version_or_greater's argument as parse_version returns it
    machine,        \* RuntimeArch::from_current_system(): "none" or an architecture
    architecture,   \* is_cpu_architecture_supported's argument, a string
    osResult,       \* result of is_os_version_or_greater, "none" before the call
    archResult      \* result of is_cpu_architecture_supported, "none" before the call

mvars == <<mutexHandles, closeCount, guard, lastAcquire>>
rvars == <<caller, timeout, prog, child, written, rwPc, rwStatus, rwResult, killed, log,
           hookPc, cleanup>>

pvars == <<pathArg, parentArg, osFailure, subPathResult>>

gvars == <<host, version, machine, architecture, osResult, archResult>>

vars == <<mvars, rvars, pvars, gvars>>

(***************************************************************************)
(* Global mutex                                                            *)
(***************************************************************************)
\* Processes that may run an installer/updater for the same application id.
NumProcs == 3
\* Handles the OS hands out in one run of the model.
MaxHandles == 4

Procs == 1..NumProcs
Handles == 1..MaxHandles

\* The named object "velopack-<id>" exists while at least one handle to it is open.
MutexExists == DOMAIN mutexHandles # {}

\* A guard is live in process p when p holds a MutexDropGuard.
LiveGuards == {p \in Procs : guard[p] # 0}

FreeHandles == {h \in Handles : closeCount[h] = 0 /\ h \notin DOMAIN mutexHandles}

\* CreateMutexW(None, true, name) as the OS documents it: NULL on failure;
\* otherwise a new handle, with last-error ERROR_ALREADY_EXISTS when the
\* named object existed before the call and ERROR_SUCCESS when it did not.
CreateMutexW_LastError == IF MutexExists THEN "ERROR_ALREADY_EXISTS" ELSE "ERROR_SUCCESS"

\* The match on GetLastError() of create_global_mutex (lines 57-61).
MatchLastError(err) ==
    CASE err = "ERROR_SUCCESS" -> "Ok"
      [] err = "ERROR_ALREADY_EXISTS" -> "AlreadyRunning"
      [] OTHER -> "OsApiError"

MutexInit ==
    /\ mutexHandles = <<>>
    /\ closeCount = [h \in Handles |-> 0]
    /\ guard = [p \in Procs |-> 0]
    /\ lastAcquire = [proc |-> 0, result |-> "none", handle |-> 0, liveBefore |-> {}]

\* create_global_mutex where CreateMutexW itself fails: `?` returns the error,
\* no handle was opened.
create_global_mutex_fail(p) ==
    /\ lastAcquire' = [proc |-> p, result |-> "OsApiError", handle |-> 0,
                       liveBefore |-> LiveGuards]
    /\ UNCHANGED <<mutexHandles, closeCount, guard>>

\* create_global_mutex where CreateMutexW returns a handle. The handle is a
\* plain Foundation::HANDLE (Copy, no Drop): it is closed only by
\* MutexDropGuard::drop, so on the Err arms it stays open.
create_global_mutex(p) ==
    /\ FreeHandles # {}
    /\ LET h == CHOOSE x \in FreeHandles : \A y \in FreeHandles : x <= y
           res == MatchLastError(CreateMutexW_LastError)
       IN /\ mutexHandles' = (h :> p) @@ mutexHandles
          /\ guard' = IF res = "Ok" THEN [guard EXCEPT ![p] = h] ELSE guard
          /\ lastAcquire' = [proc |-> p, result |-> res, handle |-> h,
                             liveBefore |-> LiveGuards]
          /\ UNCHANGED closeCount

\* MutexDropGuard::drop: CloseHandle(self.mutex), the guard is gone.
drop(p) ==
    /\ guard[p] # 0
    /\ LET h == guard[p]
       IN /\ mutexHandles' = [x \in DOMAIN mutexHandles \ {h} |-> mutexHandles[x]]
          /\ closeCount' = [closeCount EXCEPT ![h] = @ + 1]
          /\ guard' = [guard EXCEPT ![p] = 0]
          /\ UNCHANGED lastAcquire

MutexIdle == MutexInit

NextMutex ==
    /\ \E p \in Procs :
           \/ create_global_mutex(p)
           \/ create_global_mutex_fail(p)
           \/ drop(p)
    /\ UNCHANGED <<rvars, pvars, gvars>>

\* C1: an acquire succeeds (returns a guard) if and only if no guard for the
\* application id is live at that moment, and at most one guard is live in
\* every reachable state; in particular an acquire made after the live guard
\* was released succeeds, whatever acquires failed in between.
C1_AcquireIffNoLiveGuard ==
    /\ Cardinality(LiveGuards) <= 1
    /\ lastAcquire.result \in {"Ok", "AlreadyRunning"} =>
          (lastAcquire.result = "Ok" <=> lastAcquire.liveBefore = {})

\* C2: every mutex handle that create_global_mutex obtained is, once the call
\* has returned, either owned by a live guard or closed, and no handle is
\* closed more than once.
C2_HandleOwnedOrClosed ==
    /\ \A h \in DOMAIN mutexHandles : \E p \in Procs : guard[p] = h
    /\ \A h \in Handles : closeCount[h] <= 1

(***************************************************************************)
(* Process runner and hook runner                                          *)
(***************************************************************************)
\* Bytes an anonymous pipe buffers before the writer blocks.
PipeCap == 2
\* The most bytes the child writes to one stream.
MaxWrite == 3
\* The longest timeout, in seconds.
MaxTimeoutSecs == 2

\* "X" stands for a byte that is not valid UTF-8.
StdoutBytes == {"o", "X"}
StderrBytes == {"e", "X"}
ExitCodes == {0, 3}

SeqsUpTo(S, n) == UNION {[1..k -> S] : k \in 0..n}

Progs == [out : SeqsUpTo(StdoutBytes, MaxWrite),
          err : SeqsUpTo(StderrBytes, MaxWrite),
          code : ExitCodes]

NoTimeout == [some |-> FALSE, secs |-> 0]
Timeouts == {NoTimeout} \cup {[some |-> TRUE, secs |-> t] : t \in 1..MaxTimeoutSecs}

\* String::from_utf8_lossy: every invalid byte becomes U+FFFD (written "?").
from_utf8_lossy(bytes) ==
    [i \in 1..Len(bytes) |-> IF bytes[i] = "X" THEN "?" ELSE bytes[i]]

\* What the two pipes hold: the child's writes so far, nothing read yet.
PipeOut == SubSeq(prog.out, 1, written.out)
PipeErr == SubSeq(prog.err, 1, written.err)

NoProg == [out |-> <<>>, err |-> <<>>, code |-> 0]

RunIdle ==
    /\ caller = "none"
    /\ timeout = NoTimeout
    /\ prog = NoProg
    /\ child = "none"
    /\ written = [out |-> 0, err |-> 0]
    /\ rwPc = "notcalled"
    /\ rwStatus = [got |-> FALSE, code |-> 0]
    /\ rwResult = [kind |-> "none"]
    /\ killed = "no"
    /\ log = <<>>
    /\ hookPc = "none"
    /\ cleanup = [count |-> 0, rwPcs |-> {}, result |-> "none"]

\* A direct call of run_process_no_console_and_wait with any timeout, or a
\* call of run_hook, which always passes Some(timeout_secs).
RunInit ==
    /\ caller \in {"direct", "hook"}
    /\ timeout \in Timeouts
    /\ caller = "hook" => timeout.some
    /\ prog \in Progs
    /\ child = "none"
    /\ written = [out |-> 0, err |-> 0]
    /\ rwPc = IF caller = "direct" THEN "spawn" ELSE "notcalled"
    /\ rwStatus = [got |-> FALSE, code |-> 0]
    /\ rwResult = [kind |-> "none"]
    /\ killed = "no"
    /\ log = <<>>
    /\ hookPc = IF caller = "hook" THEN "start" ELSE "none"
    /\ cleanup = [count |-> 0, rwPcs |-> {}, result |-> "none"]

\* run_hook up to its call of run_process_no_console_and_wait.
run_hook_call ==
    /\ hookPc = "start"
    /\ hookPc' = "running"
    /\ rwPc' = "spawn"
    /\ log' = Append(log, [level |-> "info", what |-> "Running hook"])
    /\ UNCHANGED <<caller, timeout, prog, child, written, rwStatus, rwResult, killed, cleanup>>

\* Process::new(..).spawn()? succeeded; AllowSetForegroundWindow's result is ignored.
spawn ==
    /\ rwPc = "spawn"
    /\ child' = "running"
    /\ rwPc' = "waiting"
    /\ UNCHANGED <<caller, timeout, prog, written, rwStatus, rwResult, killed, log,
                   hookPc, cleanup>>

\* spawn()? failed: the error is returned, there is no child.
spawn_fail ==
    /\ rwPc = "spawn"
    /\ rwResult' = [kind |-> "SpawnError"]
    /\ rwPc' = "returned"
    /\ UNCHANGED <<caller, timeout, prog, child, written, rwStatus, killed, log,
                   hookPc, cleanup>>

\* The child writes one byte to stdout; it blocks while the pipe is full,
\* and nothing reads the pipe before the child's exit was waited for.
child_write_stdout ==
    /\ child = "running"
    /\ written.out < Len(prog.out)
    /\ written.out < PipeCap
    /\ written' = [written EXCEPT !.out = @ + 1]
    /\ UNCHANGED <<caller, timeout, prog, child, rwPc, rwStatus, rwResult, killed, log,
                   hookPc, cleanup>>

child_write_stderr ==
    /\ child = "running"
    /\ written.err < Len(prog.err)
    /\ written.err < PipeCap
    /\ written' = [written EXCEPT !.err = @ + 1]
    /\ UNCHANGED <<caller, timeout, prog, child, rwPc, rwStatus, rwResult, killed, log,
                   hookPc, cleanup>>

\* The child exits on its own once it has written everything.
child_exit ==
    /\ child = "running"
    /\ written.out = Len(prog.out)
    /\ written.err = Len(prog.err)
    /\ child' = "exited"
    /\ UNCHANGED <<caller, timeout, prog, written, rwPc, rwStatus, rwResult, killed, log,
                   hookPc, cleanup>>

\* cmd.wait() or cmd.wait_timeout(t) returns the exit status of the child.
wait_status ==
    /\ rwPc = "waiting"
    /\ child = "exited"
    /\ rwStatus' = [got |-> TRUE, code |-> prog.code]
    /\ rwPc' = "check"
    /\ UNCHANGED <<caller, timeout, prog, child, written, rwResult, killed, log,
                   hookPc, cleanup>>

\* cmd.wait()? or wait_timeout's Err(e): the wait itself fails.
wait_fail ==
    /\ rwPc = "waiting"
    /\ rwResult' = [kind |-> "IoError", from |-> "wait"]
    /\ rwPc' = "returned"
    /\ UNCHANGED <<caller, timeout, prog, child, written, rwStatus, killed, log,
                   hookPc, cleanup>>

\* wait_timeout(t) returns Ok(None): the child has not exited within t.
wait_timeout_expired ==
    /\ rwPc = "waiting"
    /\ timeout.some
    /\ child = "running"
    /\ rwPc' = "kill"
    /\ UNCHANGED <<caller, timeout, prog, child, written, rwStatus, rwResult, killed, log,
                   hookPc, cleanup>>
\* What cmd.kill() does to the child when it succeeds (TerminateProcess).
kill_skipped(c) == c
KillEffect(c) == IF c = "running" THEN "killed" ELSE c

\* Ok(None) arm: cmd.kill()? succeeded, the TimedOut error is returned.
kill ==
    /\ rwPc = "kill"
    /\ child' = KillEffect(child)
    /\ killed' = "ok"
    /\ rwResult' = [kind |-> "TimedOut", secs |-> timeout.secs]
    /\ rwPc' = "returned"
    /\ UNCHANGED <<caller, timeout, prog, written, rwStatus, log, hookPc, cleanup>>

\* Ok(None) arm: cmd.kill()? failed, `?` returns the kill's error instead.
kill_fail ==
    /\ rwPc = "kill"
    /\ killed' = "err"
    /\ rwResult' = [kind |-> "IoError", from |-> "kill"]
    /\ rwPc' = "returned"
    /\ UNCHANGED <<caller, timeout, prog, child, written, rwStatus, log, hookPc, cleanup>>

\* stdout.read_to_end(&mut stdout_buf)?; stderr.read_to_end(&mut stdout_buf)?
\* into the same buffer: stdout first, stderr appended.
stderr_first(out, err) == err \o out
read_to_end(out, err) == out \o err

\* The value the nonzero-exit error carries: anyhow!("... exit code: {}", code).
NonZeroExitError(code, buf) == [kind |-> "NonZeroExit", code |-> code]

\* check_process_status_and_output when both reads succeed.
check_process_status_and_output ==
    /\ rwPc = "check"
    /\ LET buf == read_to_end(PipeOut, PipeErr)
           text == from_utf8_lossy(buf)
       IN IF rwStatus.code # 0
          THEN /\ log' = log
                     \o <<[level |-> "warn", what |-> "non-zero exit code",
                           code |-> rwStatus.code]>>
                     \o (IF Len(buf) > 0
                         THEN <<[level |-> "warn", what |-> "Output", output |-> text]>>
                         ELSE <<>>)
               /\ rwResult' = NonZeroExitError(rwStatus.code, text)
          ELSE /\ log' = log
               /\ rwResult' = [kind |-> "Ok", output |-> text]
    /\ rwPc' = "returned"
    /\ UNCHANGED <<caller, timeout, prog, child, written, rwStatus, killed, hookPc, cleanup>>

\* check_process_status_and_output when a read_to_end()? fails.
check_process_read_fail ==
    /\ rwPc = "check"
    /\ rwResult' = [kind |-> "IoError", from |-> "read"]
    /\ rwPc' = "returned"
    /\ UNCHANGED <<caller, timeout, prog, child, written, rwStatus, killed, log,
                   hookPc, cleanup>>

\* Whether run_hook reaches force_stop_package after this result: always.
cleanup_only_on_success(res) == res.kind = "Ok"
RunsForceStop(res) == TRUE

\* run_hook after run_process_no_console_and_wait returned: warn! on Err,
\* info! on Ok, then `let _ = force_stop_package(..)`, and return ().
run_hook_finish ==
    /\ hookPc = "running"
    /\ rwPc = "returned"
    /\ log' = Append(log, IF rwResult.kind = "Ok"
                          THEN [level |-> "info", what |-> "Hook executed successfully"]
                          ELSE [level |-> "warn", what |-> "Error running hook",
                                error |-> rwResult.kind])
    /\ IF RunsForceStop(rwResult)
       THEN \E r \in {"ok", "err"} :
               cleanup' = [count |-> cleanup.count + 1,
                           rwPcs |-> cleanup.rwPcs \cup {rwPc},
                           result |-> r]
       ELSE cleanup' = cleanup
    /\ hookPc' = "returned"
    /\ UNCHANGED <<caller, timeout, prog, child, written, rwPc, rwStatus, rwResult, killed>>

NextRun ==
    \/ run_hook_call /\ UNCHANGED <<mvars, pvars, gvars>>
    \/ spawn /\ UNCHANGED <<mvars, pvars, gvars>>
    \/ spawn_fail /\ UNCHANGED <<mvars, pvars, gvars>>
    \/ child_write_stdout /\ UNCHANGED <<mvars, pvars, gvars>>
    \/ child_write_stderr /\ UNCHANGED <<mvars, pvars, gvars>>
    \/ child_exit /\ UNCHANGED <<mvars, pvars, gvars>>
    \/ wait_status /\ UNCHANGED <<mvars, pvars, gvars>>
    \/ wait_fail /\ UNCHANGED <<mvars, pvars, gvars>>
    \/ wait_timeout_expired /\ UNCHANGED <<mvars, pvars, gvars>>
    \/ kill /\ UNCHANGED <<mvars, pvars, gvars>>
    \/ kill_fail /\ UNCHANGED <<mvars, pvars, gvars>>
    \/ check_process_status_and_output /\ UNCHANGED <<mvars, pvars, gvars>>
    \/ check_process_read_fail /\ UNCHANGED <<mvars, pvars, gvars>>
    \/ run_hook_finish /\ UNCHANGED <<mvars, pvars, gvars>>

(***************************************************************************)
(* Path containment: is_sub_path                                           *)
(***************************************************************************)
\* The most components after the root of an input path.
MaxComps == 2

BS == "\\"
IsSep(c) == c \in {BS, "/"}
IsLetter(c) == c \in {"a", "b", "c", "A", "B", "C"}

\* char::to_lowercase on the alphabet of the model.
LowerChar(c) ==
    CASE c = "A" -> "a"
      [] c = "B" -> "b"
      [] c = "C" -> "c"
      [] OTHER -> c

to_lowercase(str) == [i \in 1..Len(str) |-> LowerChar(str[i])]

\* str::trim_end_matches(ch)
RECURSIVE trim_end_matches(_, _)
trim_end_matches(str, ch) ==
    IF Len(str) > 0 /\ str[Len(str)] = ch
    THEN trim_end_matches(SubSeq(str, 1, Len(str) - 1), ch)
    ELSE str

\* str::starts_with(prefix)
str_starts_with(str, prefix) ==
    /\ Len(prefix) <= Len(str)
    /\ SubSeq(str, 1, Len(prefix)) = prefix

\* The environment of the model: %w% (any case) is set to C:\a.
EnvRef == <<"%", "w", "%">>
EnvValue == <<"C", ":", BS, "a">>

\* w::ExpandEnvironmentStrings: every %w% is replaced by its value.
RECURSIVE ExpandEnvironmentStrings(_)
ExpandEnvironmentStrings(str) ==
    IF str = <<>> THEN <<>>
    ELSE IF str_starts_with(to_lowercase(str), EnvRef)
         THEN EnvValue \o ExpandEnvironmentStrings(SubSeq(str, Len(EnvRef) + 1, Len(str)))
         ELSE <<str[1]>> \o ExpandEnvironmentStrings(SubSeq(str, 2, Len(str)))

\* Path::is_absolute on Windows: a drive prefix followed by a root separator.
is_absolute(str) ==
    /\ Len(str) >= 3
    /\ IsLetter(str[1])
    /\ str[2] = ":"
    /\ IsSep(str[3])

\* The pieces of str between separators, empty pieces dropped.
RECURSIVE SplitOnSeps(_, _, _)
SplitOnSeps(str, cur, acc) ==
    IF str = <<>>
    THEN IF cur = <<>> THEN acc ELSE Append(acc, cur)
    ELSE IF IsSep(str[1])
         THEN SplitOnSeps(Tail(str), <<>>, IF cur = <<>> THEN acc ELSE Append(acc, cur))
         ELSE SplitOnSeps(Tail(str), Append(cur, str[1]), acc)

\* Resolution of "." and ".." as GetFullPathNameW does it: ".." at the root stays there.
RECURSIVE ResolveDots(_, _)
ResolveDots(comps, acc) ==
    IF comps = <<>> THEN acc
    ELSE IF comps[1] = <<".">> THEN ResolveDots(Tail(comps), acc)
    ELSE IF comps[1] = <<".", ".">>
         THEN ResolveDots(Tail(comps),
                          IF acc = <<>> THEN acc ELSE SubSeq(acc, 1, Len(acc) - 1))
    ELSE ResolveDots(Tail(comps), Append(acc, comps[1]))

RECURSIVE JoinWith(_, _)
JoinWith(comps, sep) ==
    IF comps = <<>> THEN <<>>
    ELSE IF Len(comps) = 1 THEN comps[1]
    ELSE comps[1] \o <<sep>> \o JoinWith(Tail(comps), sep)

\* normalize_virtually (GetFullPathNameW) of an absolute path: separators
\* become single backslashes, "." and ".." are resolved, a trailing
\* separator is kept.
normalize_virtually(str) ==
    LET comps == ResolveDots(SplitOnSeps(SubSeq(str, 4, Len(str)), <<>>, <<>>), <<>>)
        trail == IF comps # <<>> /\ IsSep(str[Len(str)]) THEN <<BS>> ELSE <<>>
    IN <<str[1], ":", BS>> \o JoinWith(comps, BS) \o trail

\* Path::components of an absolute path: the drive prefix, the root, and the
\* normal components (empty pieces and "." are skipped, ".." is kept).
PathComponents(str) ==
    LET comps == SplitOnSeps(SubSeq(str, 4, Len(str)), <<>>, <<>>)
        kept == SelectSeq(comps, LAMBDA c : c # <<".">>)
    IN <<<<str[1], ":">>, <<BS>>>> \o kept

\* Path::starts_with: comparison by whole components.
path_starts_with(path, base) ==
    LET pc == PathComponents(path)
        bc == PathComponents(base)
    IN /\ Len(bc) <= Len(pc)
       /\ SubSeq(pc, 1, Len(bc)) = bc

\* The parent string after lines 66-67: lowercased, trailing backslashes and
\* then trailing slashes trimmed, one backslash appended.
ParentWithSeparator(parent) ==
    trim_end_matches(trim_end_matches(to_lowercase(parent), BS), "/") \o <<BS>>

\* is_sub_path(path, parent) with the OS call `fails` failing ("none": none).
is_sub_path(path0, parent0, fails) ==
    LET path == to_lowercase(path0)
        parent == ParentWithSeparator(parent0)
    IN IF path = <<>> \/ parent = <<>> THEN "Ok(false)"
       ELSE IF Len(path) < Len(parent) THEN "Ok(false)"
       ELSE IF str_starts_with(path, parent) THEN "Ok(true)"
       ELSE IF fails = "expand" THEN "Err"
       ELSE LET epath == ExpandEnvironmentStrings(path)
                eparent == ExpandEnvironmentStrings(parent)
            IN IF ~is_absolute(epath) \/ ~is_absolute(eparent) THEN "Ok(false)"
               ELSE IF fails = "normalize" THEN "Err"
               ELSE LET npath == to_lowercase(normalize_virtually(epath))
                        nparent == to_lowercase(normalize_virtually(eparent))
                    IN IF path_starts_with(npath, nparent) THEN "Ok(true)" ELSE "Ok(false)"

\* The input paths: a root, then up to MaxComps names with separators
\* between them, then possibly a trailing separator.
Roots == {<<>>, <<"c", ":", BS>>, <<"C", ":", "/">>, <<BS>>, <<"%", "W", "%", BS>>}
Names == {<<"a">>, <<"B">>, <<"a", "b">>, <<".", ".">>}
Trails == {<<>>, <<BS>>, <<"/">>}

RECURSIVE NameLists(_)
NameLists(n) ==
    IF n = 0 THEN {<<>>}
    ELSE NameLists(n - 1) \cup
         {c \o <<sep>> \o l : c \in Names, sep \in {BS, "/"}, l \in NameLists(n - 1) \ {<<>>}}
         \cup Names

InputPaths ==
    {r \o l \o t : r \in Roots, l \in NameLists(MaxComps), t \in Trails}

PathIdle ==
    /\ pathArg = <<>>
    /\ parentArg = <<>>
    /\ osFailure = "none"
    /\ subPathResult = "none"

PathInit ==
    /\ pathArg \in InputPaths
    /\ parentArg \in InputPaths
    /\ osFailure \in {"none", "expand", "normalize"}
    /\ subPathResult = "none"

is_sub_path_call ==
    /\ subPathResult = "none"
    /\ subPathResult' = is_sub_path(pathArg, parentArg, osFailure)
    /\ UNCHANGED <<pathArg, parentArg, osFailure>>

NextPath ==
    \/ is_sub_path_call /\ UNCHANGED <<mvars, rvars, gvars>>

(***************************************************************************)
(* OS version gate: is_os_version_or_greater                               *)
(***************************************************************************)
\* The build number from which the OS is Windows 11.
Win11Build == 22000

Ok(b) == IF b THEN "Ok(true)" ELSE "Ok(false)"

\* VerifyVersionInfo with VER_GREATER_EQUAL set for the major version, the
\* minor version and the build number, as Win32 evaluates it: major and minor
\* are compared in order (the minor version is looked at only when the major
\* versions are equal), and the build number is compared on its own.
VerifyVersionInfo(h, major, minor, build) ==
    IF h.apiFails THEN "Err"
    ELSE Ok(/\ \/ h.major > major
               \/ h.major = major /\ h.minor >= minor
            /\ h.build >= build)

\* The version helpers of winsafe: IsWindowsVersionOrGreater(major, minor, 0).
IsWindows7OrGreater(h) == VerifyVersionInfo(h, 6, 1, 0)
IsWindows8OrGreater(h) == VerifyVersionInfo(h, 6, 2, 0)
IsWindows8Point1OrGreater(h) == VerifyVersionInfo(h, 6, 3, 0)
IsWindows10OrGreater(h) == VerifyVersionInfo(h, 10, 0, 0)

\* Lines 193-195: a build below 22000 is raised to 22000.
build_unclamped(build) == build
ClampBuild(build) == IF build < Win11Build THEN Win11Build ELSE build

\* is_os_version_or_greater on the parsed version v.
is_os_version_or_greater(v, h) ==
    IF v.major < 8 THEN IsWindows7OrGreater(h)
    ELSE IF v.major = 8
         THEN (IF v.minor >= 1 THEN IsWindows8Point1OrGreater(h) ELSE IsWindows8OrGreater(h))
    ELSE LET major == IF v.major = 11 THEN 10 ELSE v.major
             minor == IF v.major = 11 THEN 0 ELSE v.minor
             build == IF v.major = 11 THEN ClampBuild(v.build) ELSE v.build
         IN IF major = 10 /\ build <= 0
            THEN IsWindows10OrGreater(h)
            ELSE VerifyVersionInfo(h, major, minor, build)

\* shared::parse_version("11"): major 11, nothing else given.
Version11 == [major |-> 11, minor |-> 0, build |-> 0]

(***************************************************************************)
(* CPU architecture gate: is_cpu_architecture_supported                    *)
(***************************************************************************)
\* RuntimeArch::from_str: None ("none") for a string that names no architecture.
RuntimeArch_from_str(str) ==
    IF str \in {"x86", "x64", "arm64"} THEN str ELSE "none"

\* is_cpu_architecture_supported(architecture) on a host whose
\* RuntimeArch::from_current_system() is m.
is_cpu_architecture_supported(m, str, h) ==
    IF m = "none" THEN "Ok(true)"
    ELSE LET arch == RuntimeArch_from_str(str)
         IN IF arch = "none" THEN "Ok(true)"
            ELSE LET is_win_11 == is_os_version_or_greater(Version11, h)
                 IN IF is_win_11 = "Err" THEN "Err"
                    ELSE IF m = "x86" THEN Ok(arch = "x86")
                    ELSE IF m = "x64" THEN Ok(arch = "x86" \/ arch = "x64")
                    ELSE IF m = "arm64"
                         THEN Ok(\/ arch = "x86"
                                 \/ arch = "x64" /\ is_win_11 = "Ok(true)"
                                 \/ arch = "arm64")
                    ELSE "Ok(true)"

\* The hosts and the inputs of the model.
HostVersions ==
    {[major |-> 6, minor |-> 0, build |-> 6002],
     [major |-> 6, minor |-> 1, build |-> 7601],
     [major |-> 6, minor |-> 2, build |-> 9200],
     [major |-> 6, minor |-> 3, build |-> 9600],
     [major |-> 10, minor |-> 0, build |-> 19045],
     [major |-> 10, minor |-> 0, build |-> 22000],
     [major |-> 10, minor |-> 0, build |-> 22631],
     [major |-> 12, minor |-> 0, build |-> 30000],
     [major |-> 12, minor |-> 1, build |-> 30000]}

Hosts ==
    {[major |-> hv.major, minor |-> hv.minor, build |-> hv.build, apiFails |-> f] :
        hv \in HostVersions, f \in BOOLEAN}

Versions == [major : {6, 7, 8, 9, 10, 11, 12}, minor : {0, 1, 2},
             build : {0, 19045, 22000, 22631}]

Machines == {"none", "x86", "x64", "arm64"}
ArchStrings == {"x86", "x64", "arm64", "invalid", ""}

GateIdle ==
    /\ host = [major |-> 0, minor |-> 0, build |-> 0, apiFails |-> FALSE]
    /\ version = [major |-> 0, minor |-> 0, build |-> 0]
    /\ machine = "none"
    /\ architecture = ""
    /\ osResult = "none"
    /\ archResult = "none"

GateInit ==
    /\ host \in Hosts
    /\ version \in Versions
    /\ machine \in Machines
    /\ architecture \in ArchStrings
    /\ osResult = "none"
    /\ archResult = "none"

is_os_version_or_greater_call ==
    /\ osResult = "none"
    /\ osResult' = is_os_version_or_greater(version, host)
    /\ UNCHANGED <<host, version, machine, architecture, archResult>>

is_cpu_architecture_supported_call ==
    /\ archResult = "none"
    /\ archResult' = is_cpu_architecture_supported(machine, architecture, host)
    /\ UNCHANGED <<host, version, machine, architecture, osResult>>

NextGate ==
    \/ is_os_version_or_greater_call /\ UNCHANGED <<mvars, rvars, pvars>>
    \/ is_cpu_architecture_supported_call /\ UNCHANGED <<mvars, rvars, pvars>>

(***************************************************************************)
(* Specifications                                                          *)
(***************************************************************************)
InitMutex == MutexInit /\ RunIdle /\ PathIdle /\ GateIdle
SpecMutex == InitMutex /\ [][NextMutex]_vars

InitRun == RunInit /\ MutexIdle /\ PathIdle /\ GateIdle
SpecRun == InitRun /\ [][NextRun]_vars
\* The steps that are taken when they can be: the OS schedules the child and
\* the calling thread, a call that can return does return, and the timer of
\* wait_timeout runs out. A failing wait (wait_fail) is never forced.
RunProgress ==
    \/ run_hook_call /\ UNCHANGED <<mvars, pvars, gvars>>
    \/ spawn /\ UNCHANGED <<mvars, pvars, gvars>>
    \/ spawn_fail /\ UNCHANGED <<mvars, pvars, gvars>>
    \/ child_write_stdout /\ UNCHANGED <<mvars, pvars, gvars>>
    \/ child_write_stderr /\ UNCHANGED <<mvars, pvars, gvars>>
    \/ child_exit /\ UNCHANGED <<mvars, pvars, gvars>>
    \/ wait_status /\ UNCHANGED <<mvars, pvars, gvars>>
    \/ wait_timeout_expired /\ UNCHANGED <<mvars, pvars, gvars>>
    \/ kill /\ UNCHANGED <<mvars, pvars, gvars>>
    \/ kill_fail /\ UNCHANGED <<mvars, pvars, gvars>>
    \/ check_process_status_and_output /\ UNCHANGED <<mvars, pvars, gvars>>
    \/ check_process_read_fail /\ UNCHANGED <<mvars, pvars, gvars>>
    \/ run_hook_finish /\ UNCHANGED <<mvars, pvars, gvars>>

FairSpecRun == SpecRun /\ WF_vars(RunProgress)

InitPath == PathInit /\ MutexIdle /\ RunIdle /\ GateIdle
SpecPath == InitPath /\ [][NextPath]_vars

InitGate == GateInit /\ MutexIdle /\ RunIdle /\ PathIdle
SpecGate == InitGate /\ [][NextGate]_vars

(***************************************************************************)
(* Claims about the process runner and the hook runner                     *)
(***************************************************************************)
\* What the child wrote in all: its stdout bytes followed by its stderr bytes.
ChildOutput == prog.out \o prog.err

\* C3 (as claimed): whenever the timeout expired with the child still running,
\* run_and_wait returns the TimedOut error carrying the duration and the child
\* is no longer running at that moment.
C3_ExpiryAlwaysTimedOut ==
    (rwPc = "returned" /\ killed # "no") =>
        /\ rwResult = [kind |-> "TimedOut", secs |-> timeout.secs]
        /\ child # "running"

\* C3 (amended): after the timeout expired the kill is attempted before the
\* return; when the kill succeeds the result is TimedOut with the duration and
\* the child is not running; when the kill fails its error is returned
\* instead; and every TimedOut result comes with a child that is not running.
C3_TimedOutMeansKilled ==
    /\ (rwPc = "returned" /\ killed = "ok") =>
          /\ rwResult = [kind |-> "TimedOut", secs |-> timeout.secs]
          /\ child \in {"killed", "exited"}
    /\ (rwPc = "returned" /\ killed = "err") =>
          rwResult = [kind |-> "IoError", from |-> "kill"]
    /\ rwResult.kind = "TimedOut" =>
          /\ rwPc = "returned"
          /\ timeout.some
          /\ killed = "ok"
          /\ child \in {"killed", "exited"}

\* C3 witness: a timed-out call has returned and its child was killed.
C3_Witness ==
    /\ rwPc = "returned"
    /\ rwResult.kind = "TimedOut"
    /\ rwResult.secs = 2
    /\ child = "killed"

C5_HookAlwaysCleansUpOnce ==
    /\ hookPc = "returned" =>
          /\ cleanup.count = 1
          /\ cleanup.rwPcs = {"returned"}
          /\ cleanup.result \in {"ok", "err"}
    /\ hookPc # "returned" => cleanup.count = 0
    /\ (hookPc = "running" /\ rwPc = "returned") => ENABLED run_hook_finish

\* C5 witness: the hook exited nonzero, the cleanup failed too, run_hook returned.
C5_Witness ==
    /\ hookPc = "returned"
    /\ rwResult.kind = "NonZeroExit"
    /\ cleanup.result = "err"

\* C10: every call of run_and_wait eventually returns, however much the child
\* writes to stdout and stderr.
C10_RunAndWaitReturns == <>(rwPc = "returned")

(***************************************************************************)
(* Claims about is_sub_path                                                *)
(***************************************************************************)
\* The canonicalized, case-folded component sequence of an absolute path.
CanonicalComponents(str) == PathComponents(to_lowercase(normalize_virtually(str)))

IsComponentPrefix(base, path) ==
    LET bc == CanonicalComponents(ExpandEnvironmentStrings(base))
        pc == CanonicalComponents(ExpandEnvironmentStrings(path))
    IN /\ Len(bc) <= Len(pc)
       /\ SubSeq(pc, 1, Len(bc)) = bc

\* C6: for an absolute path P and a non-empty absolute Q, is_sub_path(P, Q) is
\* true if and only if the canonical component sequence of Q is a prefix of
\* that of P; the string-prefix fast path never answers differently.
\* (Stated for the calls in which no OS call fails and P and Q do not name
\* the same directory.)
C6_SubPathIffComponentPrefix ==
    (/\ subPathResult # "none"
     /\ osFailure = "none"
     /\ is_absolute(pathArg)
     /\ parentArg # <<>>
     /\ is_absolute(ExpandEnvironmentStrings(parentArg))
     /\ CanonicalComponents(ExpandEnvironmentStrings(parentArg))
           # CanonicalComponents(pathArg)) =>
        (subPathResult = "Ok(true)" <=> IsComponentPrefix(parentArg, pathArg))

\* C7: is_sub_path returns false whenever an argument is empty or, after
\* environment-variable expansion, not absolute.
\* (Stated for the calls in which no OS call fails.)
C7_FalseOnEmptyOrRelative ==
    (/\ subPathResult # "none"
     /\ osFailure = "none"
     /\ \/ pathArg = <<>>
        \/ parentArg = <<>>
        \/ ~is_absolute(ExpandEnvironmentStrings(pathArg))
        \/ ~is_absolute(ExpandEnvironmentStrings(parentArg))) =>
        subPathResult = "Ok(false)"

(***************************************************************************)
(* Claims about the version gate and the architecture gate                 *)
(***************************************************************************)
Max(a, b) == IF a >= b THEN a ELSE b

\* The three-field comparison as C8 words it: each field at least the required one.
FieldwiseAtLeast(h, major, minor, build) ==
    h.major >= major /\ h.minor >= minor /\ h.build >= build

\* The three-field comparison that holds of the host facility: major and
\* minor in order, the build number on its own.
OrderedAtLeast(h, major, minor, build) ==
    /\ h.major > major \/ (h.major = major /\ h.minor >= minor)
    /\ h.build >= build

\* The host's feature tests, as truth values on a host whose queries succeed.
HostIs7(h) == h.major > 6 \/ (h.major = 6 /\ h.minor >= 1)
HostIs8(h) == h.major > 6 \/ (h.major = 6 /\ h.minor >= 2)
HostIs8Point1(h) == h.major > 6 \/ (h.major = 6 /\ h.minor >= 3)
HostIs10(h) == h.major >= 10

\* C8 (as claimed): the result is the host test of the first matching rule,
\* the last rule being true exactly when host major >= major, host minor >=
\* minor and host build >= build. (Stated for hosts whose queries succeed.)
C8_RulesWithFieldwiseComparison ==
    (osResult # "none" /\ ~host.apiFails) =>
        osResult = Ok(
            IF version.major < 8 THEN HostIs7(host)
            ELSE IF version.major = 8
                 THEN (IF version.minor >= 1 THEN HostIs8Point1(host) ELSE HostIs8(host))
            ELSE IF version.major = 11
                 THEN FieldwiseAtLeast(host, 10, 0, Max(version.build, 22000))
            ELSE IF version.major = 10 /\ version.build = 0 THEN HostIs10(host)
            ELSE FieldwiseAtLeast(host, version.major, version.minor, version.build))

\* C8 (amended): the same rules in the same order, the last rule being true
\* exactly when the host's (major, minor) is at least (major, minor) compared
\* in order and host build >= build; a failing host query gives an error.
\* So "11" is true only on a host of build >= 22000 and "12" is false on
\* every host whose major is below 12.
C8_RulesWithOrderedComparison ==
    /\ (osResult # "none" /\ ~host.apiFails) =>
          osResult = Ok(
              IF version.major < 8 THEN HostIs7(host)
              ELSE IF version.major = 8
                   THEN (IF version.minor >= 1 THEN HostIs8Point1(host) ELSE HostIs8(host))
              ELSE IF version.major = 11
                   THEN OrderedAtLeast(host, 10, 0, Max(version.build, 22000))
              ELSE IF version.major = 10 /\ version.build = 0 THEN HostIs10(host)
              ELSE OrderedAtLeast(host, version.major, version.minor, version.build))
    /\ (osResult # "none" /\ host.apiFails) => osResult = "Err"
    /\ (osResult = "Ok(true)" /\ version.major = 11) => host.build >= 22000
    /\ (osResult # "none" /\ version.major = 12 /\ host.major < 12) => osResult # "Ok(true)"

\* C8 witness: "11" asked of a host that reports 10.0.22000, answered true.
C8_Witness ==
    /\ osResult = "Ok(true)"
    /\ version = [major |-> 11, minor |-> 0, build |-> 0]
    /\ host.major = 10
    /\ host.build = 22000

\* The compatibility matrix of C9, the arm64/x64 cell left to the version gate.
MatrixCell(m, a) ==
    CASE m = "x86" -> a = "x86"
      [] m = "x64" -> a \in {"x86", "x64"}
      [] m = "arm64" -> a \in {"x86", "arm64"}

\* C9: is_supported returns the matrix value for every pair, true for an
\* unknown machine or package; only the arm64/x64 cell depends on the OS
\* version query, every other cell has its matrix value even when it fails.
C9_MatrixWhateverTheVersionQuery ==
    archResult # "none" =>
        archResult =
            IF machine = "none" \/ architecture \notin {"x86", "x64", "arm64"}
            THEN "Ok(true)"
            ELSE IF machine = "arm64" /\ architecture = "x64"
                 THEN is_os_version_or_greater(Version11, host)
                 ELSE Ok(MatrixCell(machine, architecture))

====
